---- MODULE Spec2Model ----
(***************************************************************************)
(* Model of native/sara_mix_executor/src/lib.rs: one executor handle       *)
(* (liveness flag, channel sender, join handle), its worker thread, and    *)
(* caller threads that run sara_mix_executor_enqueue and                   *)
(* sara_mix_executor_destroy against it.  Init is the state right after    *)
(* sara_mix_executor_create has returned.                                  *)
(***************************************************************************)
EXTENDS Integers, Sequences, FiniteSets

(***************************************************************************)
(* Bounds of the model.                                                    *)
(***************************************************************************)
\* number of calls the callers make besides the one destroy of the handle
MaxCalls == 2

\* two caller threads: either may enqueue; the threads are interchangeable,
\* so the one that destroys the handle is named Owner
Callers == {1, 2}
Owner == 1
\* the worker thread's name in the visibility set
WORKER == 0

(***************************************************************************)
(* Text.  A C string is a sequence of non-zero bytes (the terminating nul  *)
(* is implicit); a Rust String is a sequence of Unicode scalar values.     *)
(* The input alphabet holds no lead byte of a 3- or 4-byte sequence        *)
(* (224..244), so Utf8Lossy decodes 1- and 2-byte sequences and replaces   *)
(* every other byte.                                                       *)
(***************************************************************************)
REPLACEMENT == 65533

\* "\xC3\xA9" (valid UTF-8, U+00E9) and "\xFF" (never valid in UTF-8)
CStrings == { <<195, 169>>, <<255>> }

NullPtr == [null |-> TRUE, bytes |-> <<>>]
Ptr(b) == [null |-> FALSE, bytes |-> b]
Pointers == {NullPtr} \cup {Ptr(b) : b \in CStrings}

NULL_HANDLE == "null"
HANDLE == "executor"
Handles == {NULL_HANDLE, HANDLE}

IsCont(b) == b >= 128 /\ b <= 191

RECURSIVE Utf8Lossy(_)
Utf8Lossy(b) ==
    IF b = <<>> THEN <<>>
    ELSE IF b[1] < 128 THEN <<b[1]>> \o Utf8Lossy(Tail(b))
    ELSE IF b[1] >= 194 /\ b[1] <= 223 /\ Len(b) >= 2 /\ IsCont(b[2])
         THEN <<(b[1] - 192) * 64 + (b[2] - 128)>> \o Utf8Lossy(Tail(Tail(b)))
    ELSE <<REPLACEMENT>> \o Utf8Lossy(Tail(b))

\* CStr::from_ptr(p).to_string_lossy().into_owned()
ToStringLossy(p) == Utf8Lossy(p.bytes)

Utf8Encode(c) ==
    IF c < 128 THEN <<c>>
    ELSE IF c < 2048 THEN <<192 + (c \div 64), 128 + (c % 64)>>
    ELSE <<224 + (c \div 4096), 128 + ((c \div 64) % 64), 128 + (c % 64)>>

RECURSIVE StringBytes(_)
StringBytes(s) ==
    IF s = <<>> THEN <<>> ELSE Utf8Encode(Head(s)) \o StringBytes(Tail(s))

\* CString::new(s).unwrap_or_else(|_| CString::new("").unwrap())
CStringOrEmpty(s) ==
    LET b == StringBytes(s)
    IN  IF \E i \in 1..Len(b) : b[i] = 0 THEN <<>> ELSE b

\* a byte string is valid UTF-8 when the lossy conversion round-trips
ValidUtf8(b) == StringBytes(Utf8Lossy(b)) = b

(***************************************************************************)
(* State.                                                                  *)
(***************************************************************************)
VARIABLES
    callback,   \* TRUE iff create was given Some(cb)
    alive,      \* the AtomicBool's latest value
    seen,       \* threads to which the store of false is visible
    chan,       \* messages sent and not yet received
    wpc,        \* worker position: "check", "recv", "callback", "exited"
    calls,      \* callback invocations so far, in order
    freed,      \* the Box<SaraMixExecutor> has been dropped (destroy returned)
    pc,         \* position of each caller thread ("crashed" once the process faulted)
    args,       \* arguments and locals of each caller's running call
    issued,     \* history: the calls made so far, in call order
    sent,       \* history: messages whose send completed, in send order
    destroyer,  \* the thread that called destroy on HANDLE, 0 if none
    uaf         \* history: issued calls that touched the handle after it was freed

vars == <<callback, alive, seen, chan, wpc, calls, freed,
          pc, args, issued, sent, destroyer, uaf>>

NoArgs == [h |-> NULL_HANDLE, pl |-> NullPtr, it |-> NullPtr, k |-> 0, saw |-> FALSE]

ShutdownMsg == [type |-> "Shutdown", pl |-> <<>>, it |-> <<>>, k |-> 0]
WorkMsg(pl, it, k) == [type |-> "Work", pl |-> pl, it |-> it, k |-> k]

\* sara_mix_executor_create: flag true, channel empty, worker spawned
Init ==
    /\ callback \in BOOLEAN
    /\ alive = TRUE
    /\ seen = {}
    /\ chan = <<>>
    /\ wpc = "check"
    /\ calls = <<>>
    /\ freed = FALSE
    /\ pc = [t \in Callers |-> "idle"]
    /\ args = [t \in Callers |-> NoArgs]
    /\ issued = <<>>
    /\ sent = <<>>
    /\ destroyer = 0
    /\ uaf = {}

DestroyCalled == destroyer # 0

\* The history entry of a call.  A call with a null handle or identifier
\* is recorded as such, without its caller or its other arguments.
CallRecord(op, t, h, p, i) ==
    IF h = NULL_HANDLE \/ p.null \/ i.null
    THEN [op |-> op, null |-> TRUE, by |-> 0, pl |-> NullPtr, it |-> NullPtr,
          early |-> FALSE]
    ELSE [op |-> op, null |-> FALSE, by |-> t, pl |-> p, it |-> i,
          early |-> ~DestroyCalled]

\* faulty variant: a load may return true although the store of false is
\* already in the thread's view
LoadAlive_Stale(t) == IF alive THEN {TRUE} ELSE {TRUE, FALSE}

(***************************************************************************)
(* alive.load(Ordering::Relaxed) by thread t: the values the load may      *)
(* return.  A thread that has the store of false in its view reads false;  *)
(* any other thread may still read the initial true.                       *)
(***************************************************************************)
LoadAlive(t) ==
    IF t \in seen THEN {FALSE}
    ELSE IF alive THEN {TRUE}
    ELSE {TRUE, FALSE}

SeenAfterLoad(t, v) == IF v THEN seen ELSE seen \cup {t}

\* The Relaxed store of false reaches thread t's view.  A caller's view is
\* read only by its own load, where LoadAlive already makes this choice; the
\* worker's view also matters between its loads (how much it still starts),
\* so for the worker the arrival is a step of its own.
Visible(t) ==
    /\ ~alive
    /\ t \notin seen
    /\ seen' = seen \cup {t}
    /\ UNCHANGED <<callback, alive, chan, wpc, calls, freed, pc, args,
                   issued, sent, destroyer, uaf>>

(***************************************************************************)
(* The channel.                                                            *)
(***************************************************************************)
\* faulty variant: the message is pushed in front of those already queued
Send_Lifo(ch, msg) == <<msg>> \o ch

\* tx.send(msg) on a channel whose receiver is alive
Send(ch, msg) == Append(ch, msg)

\* faulty variant: a rendezvous channel, send waits until the queue is empty
SendReady_Bounded(ch) == ch = <<>>

\* mpsc::channel() is unbounded: send never waits for room in the queue
SendReady(ch) == TRUE

\* the receiver lives until the worker function returns and drops rx
ReceiverAlive == wpc # "exited"

(***************************************************************************)
(* worker                                                                  *)
(***************************************************************************)
\* faulty variant: the two identifiers are passed in the wrong order
Invocation_Swapped(msg) ==
    [pl |-> CStringOrEmpty(msg.it), it |-> CStringOrEmpty(msg.pl), k |-> msg.k]

\* the value the callback receives for one Work message
Invocation(msg) ==
    [pl |-> CStringOrEmpty(msg.pl), it |-> CStringOrEmpty(msg.it), k |-> msg.k]

\* faulty variant: the Shutdown arm goes on to the next receive
AfterMessage_KeepsReceiving(msg) ==
    IF msg.type = "Shutdown" THEN "recv"
    ELSE IF callback THEN "callback" ELSE "check"

\* faulty variant: the callback is handed to a detached thread and the
\* worker goes on at once
AfterMessage_Detached(msg) ==
    IF msg.type = "Shutdown" THEN "exited" ELSE "check"

\* where the worker goes after matching a received message
AfterMessage(msg) ==
    IF msg.type = "Shutdown" THEN "exited"
    ELSE IF callback THEN "callback" ELSE "check"

\* faulty variant: the callback is not checked for None
Invokes_Unchecked(msg) == msg.type = "Work"

\* if let Some(cb) = callback, in the Message::Work arm
Invokes(msg) == msg.type = "Work" /\ callback

\* faulty variant: try_recv, an empty channel sends the loop round again
EmptyRecv_TryRecv == IF freed THEN "exited" ELSE "check"

\* rx.recv() on an empty channel: Err once every sender is gone (the loop
\* breaks), else the thread stays blocked in the receive
EmptyRecv == IF freed THEN "exited" ELSE "recv"

\* while alive.load(Ordering::Relaxed)
WorkerCheck ==
    /\ wpc = "check"
    /\ \E v \in LoadAlive(WORKER) :
        /\ seen' = SeenAfterLoad(WORKER, v)
        /\ wpc' = IF v THEN "recv" ELSE "exited"
        /\ chan' = IF v THEN chan ELSE <<>>
    /\ UNCHANGED <<callback, alive, calls, freed, pc, args,
                   issued, sent, destroyer, uaf>>

\* rx.recv() and the match on the message; recv blocks on an empty channel
\* while a sender exists, and fails once every sender is gone
WorkerRecv ==
    /\ wpc = "recv"
    /\ IF chan = <<>>
       THEN /\ EmptyRecv # "recv"
            /\ wpc' = EmptyRecv
            /\ UNCHANGED <<chan, calls, seen>>
       ELSE LET msg == Head(chan)
                to == AfterMessage(msg)
            IN  /\ wpc' = to
                /\ chan' = IF to = "exited" THEN <<>> ELSE Tail(chan)
                /\ calls' = IF Invokes(msg)
                            THEN Append(calls, Invocation(msg))
                            ELSE calls
                /\ seen' = IF msg.type = "Shutdown" THEN seen \cup {WORKER} ELSE seen
    /\ UNCHANGED <<callback, alive, freed, pc, args,
                   issued, sent, destroyer, uaf>>

\* cb(playlist.as_ptr(), item.as_ptr()) returns
WorkerReturn ==
    /\ wpc = "callback"
    /\ wpc' = "check"
    /\ UNCHANGED <<callback, alive, seen, chan, calls, freed, pc, args,
                   issued, sent, destroyer, uaf>>

Worker == WorkerCheck \/ WorkerRecv \/ WorkerReturn

(***************************************************************************)
(* sara_mix_executor_enqueue                                               *)
(***************************************************************************)
\* a fault on freed memory aborts the process: every caller thread stops
\* (the worker has exited before the handle is freed)
Fault ==
    /\ pc' = [t \in Callers |-> "crashed"]
    /\ args' = [t \in Callers |-> NoArgs]

Return(t) ==
    /\ pc' = [pc EXCEPT ![t] = "idle"]
    /\ args' = [args EXCEPT ![t] = NoArgs]

\* faulty variant: the item_id null check is missing
ArgsInvalid_NoItemCheck(h, p, i) == h = NULL_HANDLE \/ p.null

\* handle.is_null() || playlist_id.is_null() || item_id.is_null()
ArgsInvalid(h, p, i) == h = NULL_HANDLE \/ p.null \/ i.null

\* faulty variant: the early return on a false flag is missing
EnqueueProceeds_Always(v) == TRUE

\* if !executor.alive.load(..) { return; }  -- v is the value loaded
EnqueueProceeds(v) == v

\* the call and its null checks, which touch nothing shared; a call that
\* passes them holds &*handle and stands before the load of the flag
EnqueueCall(t, h, p, i) ==
    /\ pc[t] = "idle"
    /\ Len(issued) < MaxCalls
    /\ issued' = Append(issued, CallRecord("enqueue", t, h, p, i))
    /\ IF ArgsInvalid(h, p, i)
       THEN UNCHANGED <<pc, args>>
       ELSE /\ pc' = [pc EXCEPT ![t] = "e_alive"]
            /\ args' = [args EXCEPT ![t] =
                          [h |-> h, pl |-> p, it |-> i, k |-> Len(issued) + 1,
                           saw |-> FALSE]]
    /\ UNCHANGED <<callback, alive, seen, chan, wpc, calls, freed,
                   sent, destroyer, uaf>>

\* executor.alive.load(Ordering::Relaxed)
\* On a freed handle the read is undefined: it yields either value, or faults.
EnqueueLoadAlive(t) ==
    /\ pc[t] = "e_alive"
    /\ IF freed
       THEN /\ uaf' = uaf \cup {args[t].k}
            /\ \/ \E v \in BOOLEAN :
                    /\ args' = [args EXCEPT ![t].saw = v]
                    /\ pc' = [pc EXCEPT ![t] = "e_send"]
               \/ Fault
            /\ UNCHANGED seen
       ELSE /\ \E v \in LoadAlive(t) :
                    /\ seen' = SeenAfterLoad(t, v)
                    /\ args' = [args EXCEPT ![t].saw = v]
            /\ pc' = [pc EXCEPT ![t] = "e_send"]
            /\ UNCHANGED uaf
    /\ UNCHANGED <<callback, alive, chan, wpc, calls, freed,
                   issued, sent, destroyer>>

\* the early return on a false flag, else the two conversions and
\* let _ = executor.tx.send(Message::Work(pl, it))
\* On a freed handle the send is undefined; the receiver is gone by then, so
\* it reports the disconnect or faults.
EnqueueSend(t) ==
    LET a == args[t]
        msg == WorkMsg(ToStringLossy(a.pl), ToStringLossy(a.it), a.k)
    IN  /\ pc[t] = "e_send"
        /\ IF ~EnqueueProceeds(a.saw)
           THEN /\ Return(t)
                /\ UNCHANGED <<chan, sent, uaf>>
           ELSE IF freed
           THEN /\ uaf' = uaf \cup {a.k}
                /\ \/ Return(t)
                   \/ Fault
                /\ UNCHANGED <<chan, sent>>
           ELSE IF ReceiverAlive
           THEN /\ SendReady(chan)
                /\ chan' = Send(chan, msg)
                /\ sent' = Append(sent, msg)
                /\ Return(t)
                /\ UNCHANGED uaf
           ELSE /\ Return(t)
                /\ UNCHANGED <<chan, sent, uaf>>
        /\ UNCHANGED <<callback, alive, seen, wpc, calls, freed, issued,
                       destroyer>>

(***************************************************************************)
(* sara_mix_executor_destroy                                               *)
(***************************************************************************)
\* if handle.is_null() { return; }
HandleInvalid(h) == h = NULL_HANDLE

\* the call, its null check and Box::from_raw(handle), which touch nothing
\* shared.  A correct caller destroys a handle once: one call on HANDLE, by
\* its owner.
DestroyCall(t, h) ==
    /\ pc[t] = "idle"
    /\ IF h = HANDLE
       THEN /\ ~DestroyCalled
            /\ t = Owner
            /\ destroyer' = t
            /\ UNCHANGED issued
       ELSE /\ Len(issued) < MaxCalls
            /\ issued' = Append(issued, CallRecord("destroy", t, h, NullPtr, NullPtr))
            /\ UNCHANGED destroyer
    /\ IF HandleInvalid(h)
       THEN UNCHANGED pc
       ELSE pc' = [pc EXCEPT ![t] = "d_store"]
    /\ UNCHANGED <<callback, alive, seen, chan, wpc, calls, freed,
                   args, sent, uaf>>

\* faulty variant: destroy stores true
StoredFlag_True == TRUE

\* the value destroy stores into the flag
StoredFlag == FALSE

\* executor.alive.store(false, Ordering::Relaxed)
DestroyStore(t) ==
    /\ pc[t] = "d_store"
    /\ alive' = StoredFlag
    /\ seen' = seen \cup {t}
    /\ pc' = [pc EXCEPT ![t] = "d_send"]
    /\ UNCHANGED <<callback, chan, wpc, calls, freed, args,
                   issued, sent, destroyer, uaf>>

\* faulty variant: destroy sends no Shutdown
AfterShutdownSend_Skipped(ch) == ch

\* the channel after let _ = executor.tx.send(Message::Shutdown)
AfterShutdownSend(ch) == Send(ch, ShutdownMsg)

\* the history entry of the Shutdown send: it notes how many calls had been
\* made when Shutdown was sent (calls numbered above it started later)
ShutdownSent == [ShutdownMsg EXCEPT !.k = Len(issued)]

DestroySend(t) ==
    /\ pc[t] = "d_send"
    /\ IF ReceiverAlive
       THEN /\ chan' = AfterShutdownSend(chan)
            /\ sent' = Append(sent, ShutdownSent)
       ELSE UNCHANGED <<chan, sent>>
    /\ pc' = [pc EXCEPT ![t] = "d_join"]
    /\ UNCHANGED <<callback, alive, seen, wpc, calls, freed, args,
                   issued, destroyer, uaf>>

\* faulty variant: destroy does not wait for the worker
JoinReady_NoJoin == TRUE

\* thread.join() returns once the worker function has returned
JoinReady == wpc = "exited"

\* thread.join(), then the end of scope: the Box is dropped (flag, sender and
\* storage released) and destroy returns
DestroyJoin(t) ==
    /\ pc[t] = "d_join"
    /\ JoinReady
    /\ freed' = TRUE
    /\ Return(t)
    /\ UNCHANGED <<callback, alive, seen, chan, wpc, calls,
                   issued, sent, destroyer, uaf>>

\* the steps of enqueue, its identifiers drawn from the pointers P
EnqueueWith(t, P) ==
    \/ \E h \in Handles, p \in P, i \in P : EnqueueCall(t, h, p, i)
    \/ EnqueueLoadAlive(t)
    \/ EnqueueSend(t)

Enqueue(t) == EnqueueWith(t, Pointers)

Destroy(t) ==
    \/ \E h \in Handles : DestroyCall(t, h)
    \/ DestroyStore(t)
    \/ DestroySend(t)
    \/ DestroyJoin(t)

Next ==
    \/ Worker
    \/ Visible(WORKER)
    \/ \E t \in Callers : Enqueue(t)
    \/ \E t \in Callers : Destroy(t)

Spec == Init /\ [][Next]_vars

\* Scheduling: the worker thread and a thread inside destroy keep running
\* (a callback that was entered returns); callers are free to stop calling.
DestroyStep(t) == DestroyStore(t) \/ DestroySend(t) \/ DestroyJoin(t)

\* No guard of the program reads the text of an identifier, so progress is
\* checked with one (malformed) identifier text besides the null pointer.
FairNext ==
    \/ Worker
    \/ Visible(WORKER)
    \/ \E t \in Callers : EnqueueWith(t, {NullPtr, Ptr(<<255>>)})
    \/ \E t \in Callers : Destroy(t)

FairSpec ==
    /\ Init
    /\ [][FairNext]_vars
    /\ WF_vars(Worker)
    /\ \A t \in Callers : WF_vars(DestroyStep(t))

(***************************************************************************)
(* Vocabulary of the properties.                                           *)
(***************************************************************************)
DestroyReturned == freed

\* the enqueue calls that passed the null checks, as indices of issued
EnqueueIds == {k \in DOMAIN issued : issued[k].op = "enqueue" /\ ~issued[k].null}

\* position of call k's Work message in send order, 0 if it was never sent
SentPos(k) ==
    IF \E n \in DOMAIN sent : sent[n].type = "Work" /\ sent[n].k = k
    THEN CHOOSE n \in DOMAIN sent : sent[n].type = "Work" /\ sent[n].k = k
    ELSE 0

\* position of Shutdown in send order, 0 if it was not sent
ShutdownPos ==
    IF \E n \in DOMAIN sent : sent[n].type = "Shutdown"
    THEN CHOOSE n \in DOMAIN sent : sent[n].type = "Shutdown"
    ELSE 0

Delivered(k) == \E j \in DOMAIN calls : calls[j].k = k

\* what the caller passed in call k, as the callback would see it unchanged
Passed(k) == [pl |-> issued[k].pl.bytes, it |-> issued[k].it.bytes, k |-> k]

\* every call so far is a well-formed enqueue made by the thread that
\* destroys the handle, begun before its destroy call
SingleCaller ==
    /\ DestroyCalled
    /\ \A k \in DOMAIN issued :
        /\ k \in EnqueueIds
        /\ issued[k].by = destroyer
        /\ issued[k].early
        /\ ValidUtf8(issued[k].pl.bytes)
        /\ ValidUtf8(issued[k].it.bytes)

(***************************************************************************)
(* C1.  N well-formed enqueue calls by one caller thread, all returned     *)
(* before that thread's destroy: once destroy has returned the callback    *)
(* has been invoked exactly N times, the i-th invocation carrying the      *)
(* identifiers of the i-th enqueue.                                        *)
(***************************************************************************)
C1_FifoExactlyN ==
    (callback /\ DestroyReturned /\ SingleCaller)
        => calls = [j \in DOMAIN issued |-> Passed(j)]

(***************************************************************************)
(* C2.  Shutdown drains queued work: when the worker has exited, every     *)
(* Work item whose send completed ahead of destroy's Shutdown has been     *)
(* delivered to the callback.                                              *)
(***************************************************************************)
C2_ShutdownDrains ==
    (callback /\ wpc = "exited")
        => \A n \in DOMAIN sent :
              (sent[n].type = "Work" /\ (ShutdownPos = 0 \/ n < ShutdownPos))
                  => Delivered(sent[n].k)

(***************************************************************************)
(* C3.  Once destroy has returned the worker has exited and stays exited,  *)
(* and no step invokes the callback, whatever is called afterwards.        *)
(***************************************************************************)
C3_NoCallAfterDestroy ==
    [][DestroyReturned =>
          (wpc = "exited" /\ wpc' = "exited" /\ calls' = calls)]_vars

\* destroy has returned after deliveries, and an enqueue ran on the stale handle
C3_Witness == DestroyReturned /\ calls # <<>> /\ uaf # {}

(***************************************************************************)
(* C4.  Shutdown is deadlock-free: a destroy call that has started on the  *)
(* live handle eventually returns, wherever the worker stood.              *)
(***************************************************************************)
C4_DestroyReturns == (\E t \in Callers : pc[t] = "d_store") ~> DestroyReturned

\* destroy returned after its Shutdown reached a worker that was still running
C4_Witness == DestroyReturned /\ ShutdownPos # 0

(***************************************************************************)
(* C5.  An enqueue call that began before destroy was called never reads   *)
(* the flag or uses the sender after destroy has freed the handle.         *)
(***************************************************************************)
C5_NoUseAfterFree == \A k \in uaf : ~issued[k].early

(***************************************************************************)
(* C6.  Items reach the callback in the order their sends completed, and   *)
(* two items of one caller thread in that thread's issue order.            *)
(***************************************************************************)
C6_DeliveryOrder ==
    \A i, j \in DOMAIN calls :
        i < j =>
            /\ SentPos(calls[i].k) > 0
            /\ SentPos(calls[i].k) < SentPos(calls[j].k)
            /\ issued[calls[i].k].by = issued[calls[j].k].by
                  => calls[i].k < calls[j].k

\* two deliveries of items enqueued by different caller threads
C6_Witness ==
    /\ Len(calls) >= 2
    /\ issued[calls[1].k].by # issued[calls[2].k].by

(***************************************************************************)
(* C7.  No Work item placed on the channel after Shutdown is ever          *)
(* delivered to the callback.                                              *)
(***************************************************************************)
C7_NothingAfterShutdown ==
    \A j \in DOMAIN calls :
        ShutdownPos # 0 => SentPos(calls[j].k) < ShutdownPos

\* the worker has exited on Shutdown with a Work item sent behind it
C7_Witness ==
    /\ callback
    /\ wpc = "exited"
    /\ ShutdownPos # 0
    /\ \E n \in DOMAIN sent : n > ShutdownPos /\ sent[n].type = "Work"

(***************************************************************************)
(* C8.  An enqueue call that read the flag as false returns without        *)
(* placing anything on the channel or changing the flag or the worker.     *)
(***************************************************************************)
C8_DeadFlagNoOp ==
    [][\A t \in Callers :
          (pc[t] = "e_send" /\ ~args[t].saw /\ pc'[t] \notin {"e_send", "crashed"})
              => /\ pc'[t] = "idle"
                 /\ UNCHANGED <<callback, alive, chan, wpc, calls, sent, freed>>]_vars

\* a call has read false while the worker could still receive its item
C8_Witness ==
    \E t \in Callers : pc[t] = "e_send" /\ ~args[t].saw /\ ReceiverAlive /\ ~freed

(***************************************************************************)
(* C9.  An identifier that is not valid text reaches the callback as the   *)
(* empty string, and a valid one unchanged.                                *)
(***************************************************************************)
OrEmpty(b) == IF ValidUtf8(b) THEN b ELSE <<>>

C9_MalformedBecomesEmpty ==
    \A j \in DOMAIN calls :
        /\ calls[j].pl = OrEmpty(issued[calls[j].k].pl.bytes)
        /\ calls[j].it = OrEmpty(issued[calls[j].k].it.bytes)

(***************************************************************************)
(* C10.  A call with a null handle or a null identifier returns at once:   *)
(* nothing is sent, stored or joined, and no thread changes position.      *)
(***************************************************************************)
C10_NullArgsNoOp ==
    [][(Len(issued') > Len(issued) /\ issued'[Len(issued')].null)
          => UNCHANGED <<callback, alive, seen, chan, wpc, calls, freed,
                         pc, args, sent, destroyer, uaf>>]_vars

\* an enqueue and a destroy with null arguments have both been made
C10_Witness ==
    /\ \E k \in DOMAIN issued : issued[k].op = "enqueue" /\ issued[k].null
    /\ \E k \in DOMAIN issued : issued[k].op = "destroy" /\ issued[k].null

(***************************************************************************)
(* C11: the lifecycle only moves forward.  The flag starts true and, once  *)
(* false, is never true again; a worker that has left its loop never runs  *)
(* again; the phase goes Created, ShuttingDown, Stopped one step at a      *)
(* time, and nothing leaves Stopped.                                       *)
(***************************************************************************)
\* 0 Created, 1 ShuttingDown (flag flipped), 2 Stopped (destroy returned)
Phase == IF freed THEN 2 ELSE IF ~alive THEN 1 ELSE 0

C11_LifecycleMonotone ==
    /\ (alive = TRUE /\ wpc # "exited" /\ Phase = 0)
    /\ [][/\ ~alive => ~alive'
          /\ wpc = "exited" => (wpc' = "exited" /\ calls' = calls)
          /\ Phase' \in {Phase, Phase + 1}
          /\ Phase = 2 => Phase' = 2]_vars

C11_Witness == Phase = 2 /\ ~alive /\ wpc = "exited" /\ sent # <<>>

(***************************************************************************)
(* C12: enqueue never waits for the worker.  Wherever a call of enqueue    *)
(* stands (before its load of the flag, or before its send), its own next  *)
(* step can be taken in the current state, whatever the worker is doing    *)
(* (inside a callback, blocked, exited) and however many items are queued; *)
(* two such steps finish the call with no worker step in between.          *)
(***************************************************************************)
C12_EnqueueNeverBlocks ==
    \A t \in Callers :
        /\ pc[t] = "e_alive" => ENABLED EnqueueLoadAlive(t)
        /\ pc[t] = "e_send" => ENABLED EnqueueSend(t)

C12_Witness ==
    \E t \in Callers :
        /\ pc[t] = "e_send" /\ args[t].saw /\ ~freed
        /\ wpc = "callback"
        /\ chan # <<>>

(***************************************************************************)
(* C13: a send that fails because the receiver is gone can happen only     *)
(* after destroy has begun: whenever the worker has exited (and dropped    *)
(* rx), destroy has already stored false into the flag.  The failed send   *)
(* is swallowed: the call returns and nothing else changes.                *)
(***************************************************************************)
\* thread t stands before a send that will find the receiver gone
SendWillFail(t) ==
    pc[t] = "e_send" /\ EnqueueProceeds(args[t].saw) /\ ~ReceiverAlive /\ ~freed

C13_FailedSendOnlyAfterDestroy ==
    [][/\ wpc' = "exited" => (~alive' /\ destroyer' # 0
                                /\ pc'[destroyer'] \notin {"d_store"})
       /\ \A t \in Callers :
            (SendWillFail(t) /\ pc'[t] # pc[t])
              => /\ pc'[t] = "idle"
                 /\ UNCHANGED <<callback, alive, seen, chan, wpc, calls,
                                freed, sent, issued, destroyer, uaf>>]_vars

C13_Witness ==
    \E t \in Callers : SendWillFail(t) /\ args[t].saw /\ destroyer # 0

C15_OnlyWorkerInvokes ==
    [][calls' # calls
         => /\ wpc = "recv" /\ wpc' = "callback"
            /\ Len(calls') = Len(calls) + 1
            /\ UNCHANGED <<pc, args, issued, sent, freed, alive>>]_vars

C15_Witness ==
    /\ Len(calls) >= 2
    /\ wpc = "callback"
    /\ \E t \in Callers : pc[t] \in {"e_alive", "e_send", "d_store", "d_send", "d_join"}

(***************************************************************************)
(* C16 as stated: whenever the flag is true and the channel is empty, the  *)
(* worker stands blocked in the receive and can take no step.              *)
(***************************************************************************)
C16_IdleOnlyInRecv ==
    (alive /\ chan = <<>>) => (wpc = "recv" /\ ~ENABLED Worker)

(***************************************************************************)
(* C16 amended: the worker does not poll.  While the flag is true and the  *)
(* channel is empty the worker's steps only lead into the receive (the     *)
(* return from a callback, then one flag check) and none leads out of it;  *)
(* blocked in the receive on an empty channel it can take no step until a  *)
(* message is sent or the sender is dropped.                               *)
(***************************************************************************)
C16_IdleWorkerBlocks ==
    /\ []((wpc = "recv" /\ chan = <<>> /\ ~freed) => ~ENABLED Worker)
    /\ [][(alive /\ chan = <<>> /\ wpc' # wpc)
            => /\ wpc # "recv"
               /\ wpc' = IF wpc = "callback" THEN "check" ELSE "recv"]_vars

C16_Witness ==
    alive /\ chan = <<>> /\ wpc = "recv" /\ calls # <<>>

(***************************************************************************)
(* C17: the worker neither skips nor repeats.  With a callback supplied,   *)
(* the invocations so far are, in order and one for one, the first Work    *)
(* messages in send order, each carrying the UTF-8 bytes of the pair of    *)
(* identifier Strings that was sent.                                       *)
(***************************************************************************)
IsWork(m) == m.type = "Work"
WorkSent == SelectSeq(sent, IsWork)

C17_PrefixOfSent ==
    callback =>
        /\ Len(calls) <= Len(WorkSent)
        /\ \A j \in DOMAIN calls :
              /\ calls[j].k = WorkSent[j].k
              /\ calls[j].pl = StringBytes(WorkSent[j].pl)
              /\ calls[j].it = StringBytes(WorkSent[j].it)

C17_Witness ==
    /\ callback
    /\ Len(calls) = 2
    /\ calls[1].pl # calls[1].it
    /\ calls[1] # calls[2]

\* with the flag's new value in force, the worker's step starts an
\* invocation only from the receive and never comes back to the receive
LastRound ==
    /\ calls' # calls => wpc = "recv"
    /\ wpc # "recv" => wpc' # "recv"
    /\ wpc = "check" => wpc' \in {"check", "exited"}

(***************************************************************************)
(* C18 as stated: once destroy has stored false, the worker starts at most *)
(* one more invocation (for a message it receives after a flag check that  *)
(* came before the store) and exits at its next flag check: from then on   *)
(* an invocation starts only from the receive, and the worker never comes  *)
(* back to the receive.                                                    *)
(***************************************************************************)
C18_OneMoreAfterStore == [][~alive => LastRound]_vars

(***************************************************************************)
(* C18 amended: the same, counted from the moment the store is visible to  *)
(* the worker thread.  The loads are Relaxed, so a flag check made after   *)
(* the store may still read true; once the store is in the worker's view   *)
(* the worker starts at most one more invocation and exits at its next     *)
(* flag check, whatever is still queued.                                   *)
(***************************************************************************)
C18_OneMoreAfterVisible == [][(WORKER \in seen) => LastRound]_vars

C18_Witness ==
    /\ WORKER \in seen
    /\ wpc = "callback"
    /\ chan # <<>> /\ Head(chan).type = "Work"

\* the calls so far that started after Shutdown had been sent
StartedAfterShutdown ==
    {k \in EnqueueIds : ShutdownPos # 0 /\ k > sent[ShutdownPos].k}

\* destroy stores false before it sends Shutdown, and sends it once
FlipThenOneShutdown ==
    /\ ShutdownPos # 0 => (~alive /\ destroyer # 0 /\ pc[destroyer] # "d_store")
    /\ Cardinality({n \in DOMAIN sent : sent[n].type = "Shutdown"}) <= 1

(***************************************************************************)
(* C19 as stated: destroy flips the flag before it sends Shutdown and      *)
(* sends Shutdown once; no enqueue call that started after Shutdown had    *)
(* been sent has placed an item on the channel.                            *)
(***************************************************************************)
C19_NoItemAfterShutdown ==
    /\ FlipThenOneShutdown
    /\ \A k \in StartedAfterShutdown : SentPos(k) = 0

(***************************************************************************)
(* C19 amended: destroy flips the flag before it sends Shutdown and sends  *)
(* Shutdown once; a Work item is placed (behind Shutdown or not) only by a *)
(* call whose flag check read true, that is, did not see the flip, and a   *)
(* thread that sees the flip never places an item.  The check is Relaxed:  *)
(* a call that starts after Shutdown was sent may still read true.         *)
(***************************************************************************)
C19_ItemOnlyFromUnseenFlip ==
    /\ [](FlipThenOneShutdown)
    /\ [][\A t \in Callers :
            (pc[t] = "e_send" /\ pc'[t] = "idle" /\ sent' # sent)
              => (args[t].saw /\ t \notin seen
                    /\ sent' = Append(sent, WorkMsg(ToStringLossy(args[t].pl),
                                                    ToStringLossy(args[t].it),
                                                    args[t].k)))]_vars

C19_Witness ==
    /\ ShutdownPos # 0
    /\ \E n \in DOMAIN sent : n > ShutdownPos /\ sent[n].type = "Work"
    /\ \E t \in Callers : t \in seen /\ t # destroyer /\ pc[t] = "e_send"

====
